---- MODULE Spec2Model ----
(***************************************************************************)
(* Model of wincompatlib's Proton and Steam runtime descriptors            *)
(* (src/src/proton, src/src/steam): architecture parsing, constructors,    *)
(* the with_* builders, sibling tool resolution against the filesystem,    *)
(* loader resolution, environment synthesis and the version query.         *)
(*                                                                         *)
(* Representation.  An OsString that holds a path is the sequence of its   *)
(* components, the root directory being the component "/", as              *)
(* std::path::Components yields them: "/x/wine" is <<"/", "x", "wine">>,   *)
(* "wine" is <<"wine">> and the empty string is <<>>.  A PathBuf wraps an  *)
(* OsString.  Option<T> is a sequence of at most one element.              *)
(***************************************************************************)
EXTENDS Integers, Sequences, FiniteSets, TLC

VARIABLES
    self,   \* the descriptor value the caller holds (a Proton or a Steam)
    fs,     \* the set of paths (OsStrings) that exist on the filesystem
    call,   \* the operation executed last: its name, inputs and result
    prev    \* history: the last two results wineboot() returned for the
            \* current value of self, oldest first

vars == <<self, fs, call, prev>>

----------------------------------------------------------------------------
(* Option<T> *)

None == <<>>

Some(v) == <<v>>

IsSome(o) == Len(o) = 1

Unwrap(o) == o[1]

----------------------------------------------------------------------------
(* std::ffi::OsString and std::path::PathBuf, as the source uses them *)

\* OsString::from(&str) / PathBuf::from(&str) of a literal without separator
OsString_from(s) == IF s = "" THEN <<>> ELSE <<s>>

\* PathBuf { inner: OsString }
PathBuf(os) == [inner |-> os]

PathBuf_from(s) == PathBuf(OsString_from(s))

\* Path::as_os_str().to_os_string()
as_os_str(p) == p.inner

\* Path::parent(): drops the last component; None for "" and for the root
parent(p) ==
    LET c == p.inner
    IN  IF Len(c) = 0 THEN None
        ELSE IF c[Len(c)] = "/" THEN None
        ELSE Some(PathBuf(SubSeq(c, 1, Len(c) - 1)))

\* Path::join(): an absolute argument replaces the base
join(base, name) ==
    IF Len(name) > 0 /\ name[1] = "/" THEN PathBuf(name)
    ELSE PathBuf(base.inner \o name)

\* Path::exists()
exists(p, files) == as_os_str(p) \in files

----------------------------------------------------------------------------
(* ProtonArch *)

ProtonArch == {"Win32", "Win64"}

\* Variant of from_str that also takes the capitalised spellings
from_str_AnyCase(arch) ==
    IF arch \in {"win32", "x32", "32", "Win32", "WIN32", "X32"} THEN Some("Win32")
    ELSE IF arch \in {"win64", "x64", "64", "Win64", "WIN64", "X64"} THEN Some("Win64")
    ELSE None

from_str(arch) ==
    IF arch \in {"win32", "x32", "32"} THEN Some("Win32")
    ELSE IF arch \in {"win64", "x64", "64"} THEN Some("Win64")
    ELSE None

to_str(a) == IF a = "Win32" THEN "win32" ELSE "win64"

----------------------------------------------------------------------------
(* ProtonLoader *)

Loader_Current == <<"Current">>

Loader_Default == <<"Default">>

Loader_Custom(p) == <<"Custom", p>>

ProtonLoader_default == Loader_Default

----------------------------------------------------------------------------
(* Proton.  The fields of the record are written in the order TLC keeps   *)
(* them in.                                                               *)

Proton_new(binary, prefix, arch, wineboot, wineserver, wineloader) ==
    [ arch       |-> arch,
      binary     |-> PathBuf(binary),
      prefix     |-> IF IsSome(prefix) THEN Some(PathBuf(Unwrap(prefix))) ELSE None,
      wineboot   |-> IF IsSome(wineboot) THEN Some(PathBuf(Unwrap(wineboot))) ELSE None,
      wineserver |-> IF IsSome(wineserver) THEN Some(PathBuf(Unwrap(wineserver))) ELSE None,
      wineloader |-> wineloader ]

Proton_from_binary(binary) ==
    Proton_new(binary, None, None, None, None, ProtonLoader_default)

Proton_default == Proton_from_binary(OsString_from("wine"))

\* Variant of get_inner_binary without the exists() probe
Proton_get_inner_binary_NoProbe(d, binary, files) ==
    LET par == parent(d.binary)
    IN  IF IsSome(par)
        THEN join(Unwrap(par), OsString_from(binary))
        ELSE PathBuf_from(binary)

Proton_get_inner_binary(d, binary, files) ==
    LET par == parent(d.binary)
    IN  IF IsSome(par) /\ exists(join(Unwrap(par), OsString_from(binary)), files)
        THEN join(Unwrap(par), OsString_from(binary))
        ELSE PathBuf_from(binary)

Proton_wineboot(d, files) ==
    IF IsSome(d.wineboot) THEN Unwrap(d.wineboot)
    ELSE Proton_get_inner_binary(d, "wineboot", files)

Proton_wineserver(d, files) ==
    IF IsSome(d.wineserver) THEN Unwrap(d.wineserver)
    ELSE Proton_get_inner_binary(d, "wineserver", files)

\* Variant of wineloader that answers "wine" under Current as under Default
Proton_wineloader_CurrentIsWine(d) ==
    IF d.wineloader = Loader_Default THEN PathBuf_from("wine")
    ELSE IF d.wineloader = Loader_Current THEN PathBuf_from("wine")
    ELSE d.wineloader[2]

Proton_wineloader(d) ==
    IF d.wineloader = Loader_Default THEN PathBuf_from("wine")
    ELSE IF d.wineloader = Loader_Current THEN d.binary
    ELSE d.wineloader[2]

\* HashMap::insert
Insert(env, k, v) == [x \in DOMAIN env \cup {k} |-> IF x = k THEN v ELSE env[x]]

EmptyMap == [x \in {} |-> <<>>]

\* Variant of get_envs that sets WINELOADER under every loader policy
Proton_get_envs_LoaderAlways(d) ==
    LET e1 == IF IsSome(d.prefix)
              THEN Insert(EmptyMap, "WINEPREFIX", as_os_str(Unwrap(d.prefix)))
              ELSE EmptyMap
        e2 == IF IsSome(d.arch)
              THEN Insert(e1, "WINEARCH",
                          IF Unwrap(d.arch) = "Win32" THEN OsString_from("win32")
                          ELSE OsString_from("win64"))
              ELSE e1
        e3 == IF IsSome(d.wineserver)
              THEN Insert(e2, "WINESERVER", as_os_str(Unwrap(d.wineserver)))
              ELSE e2
    IN  Insert(e3, "WINELOADER",
               IF d.wineloader = Loader_Default THEN OsString_from("wine")
               ELSE IF d.wineloader = Loader_Current THEN as_os_str(d.binary)
               ELSE as_os_str(d.wineloader[2]))

Proton_get_envs(d) ==
    LET e1 == IF IsSome(d.prefix)
              THEN Insert(EmptyMap, "WINEPREFIX", as_os_str(Unwrap(d.prefix)))
              ELSE EmptyMap
        e2 == IF IsSome(d.arch)
              THEN Insert(e1, "WINEARCH",
                          IF Unwrap(d.arch) = "Win32" THEN OsString_from("win32")
                          ELSE OsString_from("win64"))
              ELSE e1
        e3 == IF IsSome(d.wineserver)
              THEN Insert(e2, "WINESERVER", as_os_str(Unwrap(d.wineserver)))
              ELSE e2
    IN  IF d.wineloader = Loader_Default THEN e3
        ELSE IF d.wineloader = Loader_Current
             THEN Insert(e3, "WINELOADER", as_os_str(d.binary))
        ELSE Insert(e3, "WINELOADER", as_os_str(d.wineloader[2]))

\* Command::new(binary).arg("--version").output()?; out is the launcher's
\* outcome, <<"Err", e>> or <<"Ok", stdout>>
Proton_version(d, out) ==
    IF out[1] = "Err" THEN out
    ELSE <<"Ok", out[2]>>

----------------------------------------------------------------------------
(* ProtonWithExt *)

Proton_with_prefix(d, prefix) == [d EXCEPT !.prefix = Some(PathBuf(prefix))]

\* Variant of with_arch that fills the other fields from Proton::default()
Proton_with_arch_FromDefault(d, arch) == [Proton_default EXCEPT !.arch = Some(arch)]

Proton_with_arch(d, arch) == [d EXCEPT !.arch = Some(arch)]

Proton_with_boot(d, boot) == [d EXCEPT !.wineboot = Some(PathBuf(boot))]

\* Variant of with_server that writes the wineboot field
Proton_with_server_WritesBoot(d, server) == [d EXCEPT !.wineboot = Some(PathBuf(server))]

Proton_with_server(d, server) == [d EXCEPT !.wineserver = Some(PathBuf(server))]

Proton_with_loader(d, loader) == [d EXCEPT !.wineloader = loader]

----------------------------------------------------------------------------
(* Steam *)

Steam_new(binary, prefix, wineboot) ==
    [ binary   |-> PathBuf(binary),
      prefix   |-> IF IsSome(prefix) THEN Some(PathBuf(Unwrap(prefix))) ELSE None,
      wineboot |-> IF IsSome(wineboot) THEN Some(PathBuf(Unwrap(wineboot))) ELSE None ]

Steam_from_binary(binary) == Steam_new(binary, None, None)

\* Variant of Steam::default with the binary of the Wine family
Steam_default_Wine == Steam_from_binary(OsString_from("wine"))

Steam_default == Steam_from_binary(OsString_from("proton"))

\* Variant of get_inner_binary without the exists() probe
Steam_get_inner_binary_NoProbe(d, binary, files) ==
    LET par == parent(d.binary)
    IN  IF IsSome(par)
        THEN join(Unwrap(par), OsString_from(binary))
        ELSE PathBuf_from(binary)

Steam_get_inner_binary(d, binary, files) ==
    LET par == parent(d.binary)
    IN  IF IsSome(par) /\ exists(join(Unwrap(par), OsString_from(binary)), files)
        THEN join(Unwrap(par), OsString_from(binary))
        ELSE PathBuf_from(binary)

Steam_wineboot(d, files) ==
    IF IsSome(d.wineboot) THEN Unwrap(d.wineboot)
    ELSE Steam_get_inner_binary(d, "wineboot", files)

Steam_get_envs(d) ==
    IF IsSome(d.prefix)
    THEN Insert(EmptyMap, "WINEPREFIX", as_os_str(Unwrap(d.prefix)))
    ELSE EmptyMap

\* The launcher's output is captured and dropped; the result is a constant.
Steam_version(d, out) ==
    IF out[1] = "Err" THEN out
    ELSE <<"Ok", OsString_from("lol")>>

\* Variant of with_prefix that fills the other fields from Steam::default()
Steam_with_prefix_FromDefault(d, prefix) ==
    [Steam_default EXCEPT !.prefix = Some(PathBuf(prefix))]

Steam_with_prefix(d, prefix) == [d EXCEPT !.prefix = Some(PathBuf(prefix))]

----------------------------------------------------------------------------
(* Inputs the callers and the environment choose from *)

Binaries == { <<"wine">>, <<"/", "x", "wine">>, <<>>, <<"/">> }

\* How many distinct prefixes the callers choose from
NumPrefixes == 2

PrefixNames == <<"p", "q", "r", "s">>

PrefixPaths == { <<"/", PrefixNames[i]>> : i \in 1..NumPrefixes }

BootPaths == { <<"/", "custom", "boot">> }

ServerPaths == { <<"/", "custom", "server">> }

Loaders == { Loader_Default, Loader_Current,
             Loader_Custom(PathBuf(<<"/", "c", "wine">>)) }

\* The optional arguments Proton::new is called with (the builders reach
\* every other combination): prefix, arch, wineboot, wineserver, wineloader
NewOptionals ==
    { <<None, None, None, None, Loader_Default>>,
      <<Some(<<"/", "p">>), Some("Win64"), None, None, Loader_Current>>,
      <<None, None, Some(<<"/", "custom", "boot">>), Some(<<"/", "custom", "server">>),
        Loader_Custom(PathBuf(<<"/", "c", "wine">>))>>,
      <<Some(<<"/", "q">>), Some("Win32"), Some(<<"/", "custom", "boot">>),
        Some(<<"/", "custom", "server">>), Loader_Default>> }

\* Candidate architecture strings: every alias, and near misses of each
ArchHeads == { "", "win", "x", "Win", "WIN", "X", " win", "w", "wine", "x ", "-" }

ArchTails == { "32", "64", "", "32 ", "64 ", "3", "6", "86", "3264", "032", "46" }

ArchStrings == { h \o t : h \in ArchHeads, t \in ArchTails }

FsPaths == { <<"/", "x", "wineboot">>, <<"/", "x", "wineserver">>, <<"wineboot">> }

Stdouts == { <<"wine-8.0">>, <<"lol">>, <<>> }

LaunchOutcomes == { <<"Err", "NotFound">> } \cup { <<"Ok", b>> : b \in Stdouts }

Opt(S) == { None } \cup { Some(v) : v \in S }

IsProton(d) == "arch" \in DOMAIN d

IsSteam(d) == ~IsProton(d)

----------------------------------------------------------------------------
(* State machine: one action per operation *)

Init ==
    /\ self = Proton_default
    /\ fs = {}
    /\ call = [op |-> "Proton::default", arg |-> <<>>, ret |-> Proton_default]
    /\ prev = None

Construct(op, arg, d) ==
    /\ self' = d
    /\ call' = [op |-> op, arg |-> arg, ret |-> d]
    /\ prev' = None
    /\ UNCHANGED fs

Query(op, arg, ret) ==
    /\ call' = [op |-> op, arg |-> arg, ret |-> ret]
    /\ UNCHANGED <<self, fs, prev>>

Resolve(op, ret) ==
    /\ call' = [op |-> op, arg |-> <<>>, ret |-> ret]
    /\ prev' = IF prev # <<>> THEN <<prev[Len(prev)], ret>> ELSE <<ret>>
    /\ UNCHANGED <<self, fs>>

ProtonDefault == Construct("Proton::default", <<>>, Proton_default)

ProtonFromBinary ==
    \E b \in Binaries : Construct("Proton::from_binary", <<b>>, Proton_from_binary(b))

ProtonNew ==
    \E b \in Binaries, o \in NewOptionals :
        Construct("Proton::new", <<b>> \o o, Proton_new(b, o[1], o[2], o[3], o[4], o[5]))

ProtonWithPrefix ==
    /\ IsProton(self)
    /\ \E p \in PrefixPaths : Construct("Proton::with_prefix", <<p>>, Proton_with_prefix(self, p))

ProtonWithArch ==
    /\ IsProton(self)
    /\ \E a \in ProtonArch : Construct("Proton::with_arch", <<a>>, Proton_with_arch(self, a))

ProtonWithBoot ==
    /\ IsProton(self)
    /\ \E p \in BootPaths : Construct("Proton::with_boot", <<p>>, Proton_with_boot(self, p))

ProtonWithServer ==
    /\ IsProton(self)
    /\ \E p \in ServerPaths : Construct("Proton::with_server", <<p>>, Proton_with_server(self, p))

ProtonWithLoader ==
    /\ IsProton(self)
    /\ \E l \in Loaders : Construct("Proton::with_loader", <<l>>, Proton_with_loader(self, l))

ProtonWineboot ==
    /\ IsProton(self)
    /\ Resolve("Proton::wineboot", Proton_wineboot(self, fs))

ProtonWineserver ==
    /\ IsProton(self)
    /\ Query("Proton::wineserver", <<>>, Proton_wineserver(self, fs))

ProtonWineloader ==
    /\ IsProton(self)
    /\ Query("Proton::wineloader", <<>>, Proton_wineloader(self))

ProtonGetEnvs ==
    /\ IsProton(self)
    /\ Query("Proton::get_envs", <<>>, Proton_get_envs(self))

ProtonVersion ==
    /\ IsProton(self)
    /\ \E out \in LaunchOutcomes : Query("Proton::version", <<out>>, Proton_version(self, out))

SteamDefault == Construct("Steam::default", <<>>, Steam_default)

SteamFromBinary ==
    \E b \in Binaries : Construct("Steam::from_binary", <<b>>, Steam_from_binary(b))

SteamNew ==
    \E b \in Binaries, p \in Opt(PrefixPaths), wb \in Opt(BootPaths) :
        Construct("Steam::new", <<b, p, wb>>, Steam_new(b, p, wb))

SteamWithPrefix ==
    /\ IsSteam(self)
    /\ \E p \in PrefixPaths : Construct("Steam::with_prefix", <<p>>, Steam_with_prefix(self, p))

SteamWineboot ==
    /\ IsSteam(self)
    /\ Resolve("Steam::wineboot", Steam_wineboot(self, fs))

SteamGetEnvs ==
    /\ IsSteam(self)
    /\ Query("Steam::get_envs", <<>>, Steam_get_envs(self))

SteamVersion ==
    /\ IsSteam(self)
    /\ \E out \in LaunchOutcomes : Query("Steam::version", <<out>>, Steam_version(self, out))

ArchFromStr ==
    \E s \in ArchStrings : Query("ProtonArch::from_str", <<s>>, from_str(s))

ArchToStr ==
    \E a \in ProtonArch : Query("ProtonArch::to_str", <<a>>, to_str(a))

\* The environment creates or removes a file
FsCreate ==
    \E f \in FsPaths :
        /\ f \notin fs
        /\ fs' = fs \cup {f}
        /\ call' = [op |-> "fs::create", arg |-> <<f>>, ret |-> <<>>]
        /\ UNCHANGED <<self, prev>>

FsRemove ==
    \E f \in FsPaths :
        /\ f \in fs
        /\ fs' = fs \ {f}
        /\ call' = [op |-> "fs::remove", arg |-> <<f>>, ret |-> <<>>]
        /\ UNCHANGED <<self, prev>>

Next ==
    \/ ProtonDefault \/ ProtonFromBinary \/ ProtonNew
    \/ ProtonWithPrefix \/ ProtonWithArch \/ ProtonWithBoot
    \/ ProtonWithServer \/ ProtonWithLoader
    \/ ProtonWineboot \/ ProtonWineserver \/ ProtonWineloader
    \/ ProtonGetEnvs \/ ProtonVersion
    \/ SteamDefault \/ SteamFromBinary \/ SteamNew
    \/ SteamWithPrefix \/ SteamWineboot \/ SteamGetEnvs \/ SteamVersion
    \/ FsCreate \/ FsRemove

Spec == Init /\ [][Next]_vars

\* ProtonArch's conversions are pure: they are exercised on their own
NextArch == ArchFromStr \/ ArchToStr

SpecArch == Init /\ [][NextArch]_vars

----------------------------------------------------------------------------
(* Properties *)

EnvKeys == { "WINEPREFIX", "WINEARCH", "WINESERVER", "WINELOADER" }

\* C1: Proton::get_envs returns a map with WINEPREFIX iff prefix is set,
\* WINEARCH iff arch is set, WINESERVER iff wineserver is set, WINELOADER iff
\* the loader is not Default, and no other key; the values are the prefix
\* path, "win32"/"win64" (the arch's to_str), the wineserver path, and the
\* binary (Current) or the custom path (Custom).  prefix=/p, arch=Win64,
\* loader=Current, binary=/x/wine gives exactly the three expected entries,
\* whether or not wineboot is set.
C1_GetEnvsExact ==
    call.op = "Proton::get_envs" =>
        LET e == call.ret
        IN  /\ DOMAIN e \subseteq EnvKeys
            /\ ("WINEPREFIX" \in DOMAIN e) <=> (self.prefix # <<>>)
            /\ ("WINEARCH" \in DOMAIN e) <=> (self.arch # <<>>)
            /\ ("WINESERVER" \in DOMAIN e) <=> (self.wineserver # <<>>)
            /\ ("WINELOADER" \in DOMAIN e) <=> (self.wineloader # <<"Default">>)
            /\ self.prefix # <<>> => e["WINEPREFIX"] = self.prefix[1].inner
            /\ self.arch = <<"Win32">> => e["WINEARCH"] = <<"win32">>
            /\ self.arch = <<"Win64">> => e["WINEARCH"] = <<"win64">>
            /\ self.arch # <<>> => e["WINEARCH"] = <<to_str(self.arch[1])>>
            /\ self.wineserver # <<>> => e["WINESERVER"] = self.wineserver[1].inner
            /\ self.wineloader = <<"Current">> => e["WINELOADER"] = self.binary.inner
            /\ self.wineloader[1] = "Custom" => e["WINELOADER"] = self.wineloader[2].inner
            /\ ( /\ self.binary.inner = <<"/", "x", "wine">>
                 /\ self.prefix = << [inner |-> <<"/", "p">>] >>
                 /\ self.arch = <<"Win64">>
                 /\ self.wineserver = <<>>
                 /\ self.wineloader = <<"Current">> )
               => e = [k \in {"WINEPREFIX", "WINEARCH", "WINELOADER"} |->
                         IF k = "WINEPREFIX" THEN <<"/", "p">>
                         ELSE IF k = "WINEARCH" THEN <<"win64">>
                         ELSE <<"/", "x", "wine">>]

C1_Witness ==
    /\ call.op = "Proton::get_envs"
    /\ self.binary.inner = <<"/", "x", "wine">>
    /\ self.prefix = << [inner |-> <<"/", "p">>] >>
    /\ self.arch = <<"Win64">>
    /\ self.wineserver = <<>>
    /\ self.wineboot # <<>>
    /\ self.wineloader = <<"Current">>
    /\ DOMAIN call.ret = {"WINEPREFIX", "WINEARCH", "WINELOADER"}

\* The sibling of the binary for a tool, from the binary's components
Sibling(b, tool) == SubSeq(b, 1, Len(b) - 1) \o <<tool>>

\* The three-step contract for one resolution: the explicit field, else the
\* existing sibling, else the bare tool name
ThreeStep(field, tool, ret) ==
    LET b == self.binary.inner
        hasParent == Len(b) >= 1 /\ b[Len(b)] # "/"
        hasDirectory == Len(b) >= 2
    IN  /\ field # <<>> => ret = field[1]
        /\ field = <<>> /\ hasParent /\ Sibling(b, tool) \in fs
              => ret.inner = Sibling(b, tool)
        /\ field = <<>> /\ ~(hasParent /\ Sibling(b, tool) \in fs)
              => ret.inner = <<tool>>
        /\ field = <<>> /\ ~hasDirectory => ret.inner = <<tool>>
        /\ field = <<>> /\ b = <<"/", "x", "wine">> /\ tool = "wineboot"
              => ret.inner = IF <<"/", "x", "wineboot">> \in fs
                             THEN <<"/", "x", "wineboot">> ELSE <<"wineboot">>

\* C2: wineboot()/wineserver() return the explicitly set path if there is
\* one, whatever the filesystem holds; otherwise parent.join(tool) if the
\* binary has a parent and that path exists; otherwise the bare tool name
\* (also for a binary without directory component).
C2_SiblingResolution ==
    /\ call.op = "Proton::wineboot" => ThreeStep(self.wineboot, "wineboot", call.ret)
    /\ call.op = "Proton::wineserver" => ThreeStep(self.wineserver, "wineserver", call.ret)
    /\ call.op = "Steam::wineboot" => ThreeStep(self.wineboot, "wineboot", call.ret)

C2_Witness ==
    /\ call.op = "Proton::wineboot"
    /\ self.wineboot = <<>>
    /\ self.binary.inner = <<"/", "x", "wine">>
    /\ <<"/", "x", "wineboot">> \in fs
    /\ call.ret.inner = <<"/", "x", "wineboot">>

\* C3: version() returns the bytes the launched binary wrote to its standard
\* output, for Proton and for Steam.
C3_VersionReturnsStdout ==
    (call.op \in {"Proton::version", "Steam::version"} /\ call.arg[1][1] = "Ok")
        => call.ret = <<"Ok", call.arg[1][2]>>

\* C4 as stated: the binary of a descriptor is never empty.
C4_BinaryNeverEmpty == self.binary.inner # <<>>

Constructors ==
    { "Proton::default", "Proton::from_binary", "Proton::new",
      "Steam::default", "Steam::from_binary", "Steam::new" }

\* C4 as amended: a constructor stores the binary it is given (the default
\* constructors store "wine" / "proton"), empty or not, and no other
\* operation changes the binary; so a binary that is not empty stays so.
C4_BinaryKept ==
    [][ /\ call'.op \in {"Proton::from_binary", "Proton::new",
                         "Steam::from_binary", "Steam::new"}
            => self'.binary.inner = call'.arg[1]
        /\ call'.op = "Proton::default" => self'.binary.inner = <<"wine">>
        /\ call'.op = "Steam::default" => self'.binary.inner = <<"proton">>
        /\ call'.op \notin Constructors => self'.binary = self.binary
        /\ (call'.op \notin Constructors /\ self.binary.inner # <<>>)
            => self'.binary.inner # <<>> ]_vars

C4_Witness ==
    /\ call.op = "Proton::with_arch"
    /\ self.binary.inner = <<"/", "x", "wine">>
    /\ self.prefix # <<>>

Win32Aliases == { "win32", "x32", "32" }

Win64Aliases == { "win64", "x64", "64" }

\* C5: from_str maps "win32", "x32", "32" to Win32 and "win64", "x64", "64"
\* to Win64, and to_str of the result is "win32" / "win64"; every other
\* string gives None; from_str(to_str(a)) = Some(a) for both values.
C5_ArchRoundTrip ==
    /\ call.op = "ProtonArch::from_str" =>
        LET s == call.arg[1]
        IN  /\ s \in Win32Aliases => call.ret = <<"Win32">> /\ to_str(call.ret[1]) = "win32"
            /\ s \in Win64Aliases => call.ret = <<"Win64">> /\ to_str(call.ret[1]) = "win64"
            /\ s \notin Win32Aliases \cup Win64Aliases => call.ret = <<>>
    /\ call.op = "ProtonArch::to_str" =>
        /\ call.ret = (IF call.arg[1] = "Win32" THEN "win32" ELSE "win64")
        /\ from_str(call.ret) = <<call.arg[1]>>

C5_Witness ==
    /\ call.op = "ProtonArch::from_str"
    /\ call.arg[1] = "x64"
    /\ call.ret = <<"Win64">>

\* The field a builder writes, and the value it must hold afterwards
Target(op) ==
    CASE op = "Proton::with_prefix" -> "prefix"
      [] op = "Proton::with_arch"   -> "arch"
      [] op = "Proton::with_boot"   -> "wineboot"
      [] op = "Proton::with_server" -> "wineserver"
      [] op = "Proton::with_loader" -> "wineloader"
      [] op = "Steam::with_prefix"  -> "prefix"

Written(op, a) ==
    CASE op \in {"Proton::with_prefix", "Proton::with_boot",
                 "Proton::with_server", "Steam::with_prefix"} -> << [inner |-> a] >>
      [] op = "Proton::with_arch"   -> <<a>>
      [] op = "Proton::with_loader" -> a

Builders ==
    { "Proton::with_prefix", "Proton::with_arch", "Proton::with_boot",
      "Proton::with_server", "Proton::with_loader", "Steam::with_prefix" }

\* C6: a builder returns a descriptor whose targeted field holds the given
\* value, whatever it held before, and whose other fields (the binary too)
\* are those of the input; applying it twice with one value is applying it
\* once.
C6_BuilderFrame ==
    /\ [][ call'.op \in Builders =>
             /\ DOMAIN self' = DOMAIN self
             /\ self'[Target(call'.op)] = Written(call'.op, call'.arg[1])
             /\ \A f \in DOMAIN self \ {Target(call'.op)} : self'[f] = self[f]
             /\ call'.ret = self' ]_vars
    /\ [](IsProton(self) =>
            /\ \A p \in PrefixPaths :
                 Proton_with_prefix(Proton_with_prefix(self, p), p) = Proton_with_prefix(self, p)
            /\ \A a \in ProtonArch :
                 Proton_with_arch(Proton_with_arch(self, a), a) = Proton_with_arch(self, a)
            /\ \A p \in BootPaths :
                 Proton_with_boot(Proton_with_boot(self, p), p) = Proton_with_boot(self, p)
            /\ \A p \in ServerPaths :
                 Proton_with_server(Proton_with_server(self, p), p) = Proton_with_server(self, p)
            /\ \A l \in Loaders :
                 Proton_with_loader(Proton_with_loader(self, l), l) = Proton_with_loader(self, l))
    /\ [](IsSteam(self) =>
            \A p \in PrefixPaths :
                 Steam_with_prefix(Steam_with_prefix(self, p), p) = Steam_with_prefix(self, p))

C6_Witness ==
    /\ call.op = "Proton::with_server"
    /\ self.wineserver = << [inner |-> <<"/", "custom", "server">>] >>
    /\ self.wineboot = <<>>
    /\ self.prefix = << [inner |-> <<"/", "q">>] >>
    /\ self.binary.inner = <<"/", "x", "wine">>

\* One builder call: the field it targets and its argument
BuilderCalls ==
    {<<"prefix", p>> : p \in PrefixPaths} \cup {<<"arch", a>> : a \in ProtonArch}
    \cup {<<"wineboot", p>> : p \in BootPaths} \cup {<<"wineserver", p>> : p \in ServerPaths}
    \cup {<<"wineloader", l>> : l \in Loaders}

Apply(c, d) ==
    CASE c[1] = "prefix"     -> Proton_with_prefix(d, c[2])
      [] c[1] = "arch"       -> Proton_with_arch(d, c[2])
      [] c[1] = "wineboot"   -> Proton_with_boot(d, c[2])
      [] c[1] = "wineserver" -> Proton_with_server(d, c[2])
      [] c[1] = "wineloader" -> Proton_with_loader(d, c[2])

\* C7: two Proton builders that target different fields commute: applied to
\* a descriptor a constructor or a builder has returned, both orders give
\* descriptors equal field for field, hence equal get_envs and resolver
\* results.
C7_BuildersCommute ==
    (IsProton(self) /\ call.op \in Constructors \cup Builders) =>
        \A c1 \in BuilderCalls, c2 \in BuilderCalls :
            c1[1] # c2[1] =>
                LET d12 == Apply(c2, Apply(c1, self))
                    d21 == Apply(c1, Apply(c2, self))
                IN  /\ \A f \in DOMAIN self : d12[f] = d21[f]
                    /\ DOMAIN d12 = DOMAIN d21
                    /\ d12[c1[1]] = Apply(c1, self)[c1[1]]
                    /\ d12[c2[1]] = Apply(c2, self)[c2[1]]
                    /\ Proton_get_envs(d12) = Proton_get_envs(d21)
                    /\ Proton_wineboot(d12, fs) = Proton_wineboot(d21, fs)
                    /\ Proton_wineserver(d12, fs) = Proton_wineserver(d21, fs)
                    /\ Proton_wineloader(d12) = Proton_wineloader(d21)

C7_Witness ==
    /\ call.op = "Proton::with_prefix"
    /\ self.arch = <<"Win64">>
    /\ self.prefix = << [inner |-> <<"/", "p">>] >>
    /\ self = Proton_with_arch(Proton_with_prefix(Proton_from_binary(<<"/", "x", "wine">>),
                                                  <<"/", "p">>), "Win64")

\* C8: wineloader() is "wine" under Default, the binary under Current and p
\* under Custom(p), whatever exists on the filesystem; and the WINELOADER
\* entry of get_envs(), when there is one, is the text of wineloader().
C8_LoaderResolution ==
    /\ call.op = "Proton::wineloader" =>
        /\ self.wineloader = <<"Default">> => call.ret = [inner |-> <<"wine">>]
        /\ self.wineloader = <<"Current">> => call.ret = self.binary
        /\ self.wineloader[1] = "Custom" => call.ret = self.wineloader[2]
    /\ (call.op = "Proton::get_envs" /\ "WINELOADER" \in DOMAIN call.ret)
        => call.ret["WINELOADER"] = Proton_wineloader(self).inner

C8_Witness ==
    /\ call.op = "Proton::wineloader"
    /\ self.wineloader = <<"Current">>
    /\ self.binary.inner = <<"/", "x", "wine">>
    /\ <<"/", "x", "wine">> \notin fs
    /\ call.ret.inner = <<"/", "x", "wine">>

\* C9: Proton::default has binary "wine", Steam::default binary "proton",
\* every optional field unset and (Proton) loader Default, and get_envs() of
\* it is empty; from_binary(b) leaves every optional unset too and its
\* get_envs() is empty.
C9_Defaults ==
    /\ call.op = "Proton::default" =>
        /\ self = [ arch |-> <<>>, binary |-> [inner |-> <<"wine">>], prefix |-> <<>>,
                    wineboot |-> <<>>, wineserver |-> <<>>, wineloader |-> <<"Default">> ]
        /\ DOMAIN Proton_get_envs(self) = {}
    /\ call.op = "Steam::default" =>
        /\ self = [ binary |-> [inner |-> <<"proton">>], prefix |-> <<>>, wineboot |-> <<>> ]
        /\ DOMAIN Steam_get_envs(self) = {}
    /\ call.op = "Proton::from_binary" =>
        /\ self = [ arch |-> <<>>, binary |-> [inner |-> call.arg[1]], prefix |-> <<>>,
                    wineboot |-> <<>>, wineserver |-> <<>>, wineloader |-> <<"Default">> ]
        /\ DOMAIN Proton_get_envs(self) = {}
    /\ call.op = "Steam::from_binary" =>
        /\ self = [ binary |-> [inner |-> call.arg[1]], prefix |-> <<>>, wineboot |-> <<>> ]
        /\ DOMAIN Steam_get_envs(self) = {}
    /\ (call.op \in {"Proton::get_envs", "Steam::get_envs"}
          /\ self.prefix = <<>> /\ self.wineboot = <<>>
          /\ (IsProton(self) =>
                self.arch = <<>> /\ self.wineserver = <<>> /\ self.wineloader = <<"Default">>))
        => DOMAIN call.ret = {}

C9_Witness ==
    /\ call.op = "Steam::get_envs"
    /\ self.binary.inner = <<"proton">>
    /\ self.prefix = <<>>
    /\ self.wineboot = <<>>
    /\ DOMAIN call.ret = {}

Resolvers == { "Proton::wineboot", "Proton::wineserver", "Steam::wineboot" }

ToolOf(op) == IF op = "Proton::wineserver" THEN "wineserver" ELSE "wineboot"

\* C10: with the tool's field unset, each wineboot()/wineserver() call
\* returns the sibling path if it exists when the call is made and the bare
\* tool name otherwise, whatever an earlier call returned, and leaves the
\* descriptor unchanged.
C10_NoCaching ==
    [][ call'.op \in Resolvers =>
          /\ self' = self
          /\ fs' = fs
          /\ self[ToolOf(call'.op)] = <<>> =>
               LET b == self.binary.inner
                   tool == ToolOf(call'.op)
                   there == Len(b) >= 1 /\ b[Len(b)] # "/" /\ Sibling(b, tool) \in fs'
               IN  call'.ret.inner = IF there THEN Sibling(b, tool) ELSE <<tool>> ]_vars

\* A call that returns the bare name after an earlier call on the same
\* descriptor returned the sibling
C10_Witness ==
    /\ call.op = "Proton::wineboot"
    /\ self.wineboot = <<>>
    /\ self.binary.inner = <<"/", "x", "wine">>
    /\ prev = << [inner |-> <<"/", "x", "wineboot">>], [inner |-> <<"wineboot">>] >>
    /\ call.ret.inner = <<"wineboot">>
    /\ <<"/", "x", "wineboot">> \notin fs

====
